---- MODULE Spec2Model ----
(***************************************************************************)
(* Snowboard plugin runtime: PluginLoader (TypeScript variant), PluginBase *)
(* and the trait composer, as a state machine over one registry.           *)
(*                                                                         *)
(* JavaScript values are modelled as pairs <<owner, name>>: the owner says *)
(* who supplied the value (the plugin class, the plugin base, a trait, the *)
(* loader, a mock callback) and the name which member of the owner it is.  *)
(***************************************************************************)
EXTENDS Integers, Sequences, FiniteSets, TLC

(***************************************************************************)
(* Bounds                                                                  *)
(***************************************************************************)
\* Number of plugin instances recorded in the heap in one behaviour.
MaxObjects == 2
\* Number of times one plugin's factory may be invoked in one behaviour.
MaxCalls == 2
MaxListeners == 2
MaxTriggers == 2
MaxPromiseTriggers == 1

(***************************************************************************)
(* JavaScript values                                                       *)
(***************************************************************************)
\* No own property of that name.
Absent == <<"absent", "">>
\* The value undefined.
Undefined == <<"undefined", "">>
\* A plain object literal ({}): its constructor is Object.
PlainObject == <<"object", "{}">>
\* An HTML element.
HTMLElement == <<"object", "HTMLElement">>
\* The prototype object of the Trait abstract class.
TraitPrototype == <<"Trait", "prototype">>
\* The registry handle wrapped in the internal mediator.
InnerProxy == <<"snowboard", "proxy">>
\* The detach closure the loader installs on an instance.
DetachHook == <<"loader", "detach">>

\* The arrow function that calls mock callback f with the instance first.
MockFn(f) == <<"mock", f>>

(***************************************************************************)
(* The plugin base class                                                   *)
(***************************************************************************)
\* Methods declared on PluginBase.prototype (plus the implicit constructor).
PluginBaseMethods ==
    {"constructor", "getSnowboard", "isSingleton", "construct", "init",
     "dependencies", "traits", "listens", "destruct", "detach", "destructor"}

\* Own fields every PluginBase instance has after its constructor ran.
PluginBaseFields == {"snowboard", "destructed"}

\* The two values of the destructed flag.
False == <<"boolean", "false">>
True == <<"boolean", "true">>

(***************************************************************************)
(* The Trait abstract class                                                *)
(***************************************************************************)
\* Own enumerable keys of a freshly built Trait instance (class field).
TraitBaseFields == {"snowboard"}

\* Own property names of a class object (a constructor function).
ClassOwnNames == {"length", "name", "prototype"}

\* Own property descriptors of the Trait class object: what
\* Object.getOwnPropertyDescriptor(Object.getPrototypeOf(TraitClass), n)
\* yields for a trait class that extends Trait.
TraitClassDescriptor(n) ==
    CASE n = "length"    -> <<"Trait", "length">>
      [] n = "name"      -> <<"Trait", "name">>
      [] n = "prototype" -> TraitPrototype
      [] OTHER           -> Undefined

(***************************************************************************)
(* Registered classes (the inputs of the model)                            *)
(***************************************************************************)
\* Plugin names, as keys of the registry (lower case).
PluginNames == {"alert", "store", "cookie"}

\* Plugins composed with the Configurable trait ("cfg") that pass no HTML
\* element to it: a singleton and a non-singleton.
ConfigurablePlugins == {"panel", "dialog"}

\* Trait names that plugins declare; "ghost" is declared but never registered.
TraitNames == {"a", "b", "ghost", "cfg"}

\* Traits registered with the registry.
RegisteredTraits == {"a", "b", "cfg"}

\* The plugin classes.
\*   singleton : isSingleton() of the class
\*   deps      : dependencies() as declared (any letter case)
\*   traits    : traits() of the concrete class
\*   inherited : traits() of the class it extends, which the concrete class
\*               overrides (empty when that class is a plugin abstract)
\*   methods   : methods the class declares on its prototype
\*   fields    : own fields the class declares (class fields); a class that
\*               implements PrototypedObject declares the field "prototype",
\*               initialised to an object literal
\* "cookie" is a plain subclass of the Singleton abstract: it declares no
\* field named "prototype".
PluginClass(p) ==
    CASE p = "alert"  -> [singleton |-> FALSE, deps |-> <<"Cookie">>,
                          traits |-> <<"a", "ghost", "b", "a">>,
                          inherited |-> << >>,
                          methods |-> {"show"},
                          fields |-> {"bar", "prototype"}]
      [] p = "store"  -> [singleton |-> TRUE, deps |-> <<"Cookie", "ALERT">>,
                          traits |-> <<"b">>, inherited |-> <<"a", "b">>,
                          methods |-> {"show"},
                          fields |-> {"prototype"}]
      [] p = "cookie" -> [singleton |-> TRUE, deps |-> <<"Store">>,
                          traits |-> <<"ghost", "a">>, inherited |-> << >>,
                          methods |-> {"show"}, fields |-> {}]
      [] p = "panel"  -> [singleton |-> TRUE, deps |-> << >>,
                          traits |-> <<"b", "cfg">>, inherited |-> << >>,
                          methods |-> {"show"},
                          fields |-> {"prototype"}]
      [] p = "dialog" -> [singleton |-> FALSE, deps |-> << >>,
                          traits |-> <<"cfg", "a">>, inherited |-> << >>,
                          methods |-> {"show"},
                          fields |-> {"prototype"}]

\* The trait classes (each extends Trait).
\*   fields    : default properties (class fields) of the trait
\*   methods   : methods the trait declares on its prototype
\*   construct : TRUE iff a construct method is reachable on a trait instance
\*               (Trait.prototype.construct always is)
TraitClass(t) ==
    CASE t = "a" -> [fields |-> {"foo", "bar", "init", "detach"},
                     methods |-> {"baz", "construct", "destruct"}]
      [] t = "b" -> [fields |-> {"foo", "show", "getSnowboard"},
                     methods |-> {"baz", "destructor"}]
      [] t = "cfg" -> [fields |-> {"instanceConfig", "acceptedConfigs"},
                       methods |-> {"construct", "refreshConfig"}]

\* Lower-casing of the names used in the model (String.prototype.toLowerCase).
ToLowerCase(s) ==
    CASE s = "Cookie" -> "cookie"
      [] s = "ALERT"  -> "alert"
      [] s = "Store"  -> "store"
      [] s = "Alert"  -> "alert"
      [] s = "PluginBase" -> "pluginbase"
      [] s = "hasPlugin" -> "hasplugin"
      [] s = "loadInbuilt" -> "loadinbuilt"
      [] s = "attachAbstracts" -> "attachabstracts"
      [] s = "initialiseSingletons" -> "initialisesingletons"
      [] OTHER        -> s

\* Method names given to mock and unmock; no class declares "nope".
MockNames == {"show", "nope"}

\* Every member name the model talks about.
MemberNames ==
    PluginBaseMethods \cup PluginBaseFields \cup ClassOwnNames
        \cup {"foo", "bar", "baz"} \cup MockNames
        \cup {"instanceConfig", "acceptedConfigs", "element", "refreshConfig"}

\* Callbacks given to mock.
Callbacks == {"f"}

\* NoArgs is the empty argument list (mock() initialises a singleton with
\* it); ArgLists are the argument lists given to getInstance.
NoArgs == "()"
ArgLists == {"(x)"}

(***************************************************************************)
(* Member lookup                                                           *)
(***************************************************************************)
\* Object.getPrototypeOf(instance)[n] for an instance of plugin class p:
\* the class's prototype chain (class, PluginBase), without own properties.
ProtoGet(p, n) ==
    IF n \in PluginClass(p).methods THEN <<p, n>>
    ELSE IF n \in PluginBaseMethods THEN <<"PluginBase", n>>
    ELSE Undefined

\* instance[n]: own property first, then the prototype chain.
Get(o, n) ==
    IF o.own[n] # Absent THEN o.own[n] ELSE ProtoGet(o.plugin, n)

\* new Class(snowboard, ...args): the PluginBase constructor sets snowboard
\* and destructed, then the class's own fields are initialised.
NewInstance(p, args) ==
    [plugin |-> p,
     args   |-> args,
     own    |-> [n \in MemberNames |->
                   IF n = "snowboard" THEN InnerProxy
                   ELSE IF n = "destructed" THEN False
                   ELSE IF n \in PluginClass(p).fields
                        THEN (IF n = "prototype" THEN PlainObject ELSE <<p, n>>)
                   ELSE Absent],
     pobj   |-> [m \in MockNames |-> Absent]]

(***************************************************************************)
(* Trait composition (PluginLoader.loadTraits)                             *)
(***************************************************************************)
\* The walk variable when it is the instance itself.
This == <<"instance", "this">>

\* cur.constructor.name for the objects the walk can reach.
ConstructorName(cur, o) ==
    IF cur = This THEN o.plugin
    ELSE IF cur = PlainObject THEN "Object"
    ELSE IF cur = TraitPrototype THEN "Trait"
    ELSE "Function"

\* cur.prototype: the property named "prototype" of the walked object.
PrototypeProperty(cur, o) ==
    IF cur = This THEN Get(o, "prototype") ELSE Undefined

\* cur.traits(), or the empty list when cur has no traits method.
TraitsOf(cur, o) ==
    IF cur = This THEN PluginClass(o.plugin).traits ELSE << >>

\* Set.prototype.add for each element of list: insertion order, no duplicates.
RECURSIVE AddAll(_, _)
AddAll(acc, list) ==
    IF list = << >> THEN acc
    ELSE AddAll(IF \E k \in 1..Len(acc) : acc[k] = Head(list)
                THEN acc ELSE Append(acc, Head(list)),
                Tail(list))

\* The while loop of loadTraits: reading .constructor of undefined throws.
RECURSIVE WalkAncestry(_, _, _)
WalkAncestry(cur, o, acc) ==
    IF cur = Undefined THEN [err |-> "TypeError", traits |-> acc]
    ELSE IF ConstructorName(cur, o) = "Object" THEN [err |-> "none", traits |-> acc]
    ELSE WalkAncestry(PrototypeProperty(cur, o), o, AddAll(acc, TraitsOf(cur, o)))

\* snowboard.hasTrait(t).
HasTrait(t) == t \in RegisteredTraits

\* Names that the loop over the trait class's own property names skips.
ReservedNames ==
    {"constructor", "construct", "init", "getSnowboard", "destruct",
     "destructor", "detach"}

\* Keys of the descriptor table built for trait t: the own keys of a trait
\* instance, then the own property names of the trait class less the
\* reserved names.
DescriptorKeys(t) ==
    TraitBaseFields \cup TraitClass(t).fields \cup (ClassOwnNames \ ReservedNames)

\* descriptors[n] for trait t: the class-name loop runs second and overwrites.
Descriptor(t, n) ==
    IF n \in ClassOwnNames \ ReservedNames THEN TraitClassDescriptor(n)
    ELSE IF n \in TraitClass(t).fields THEN <<t, n>>
    ELSE Undefined

\* A composer that applies every descriptor of the trait.
KeepEveryDescriptor(o, n) == TRUE

\* The filter on descriptor keys: kept iff the instance's prototype has no
\* member of that name.
KeepDescriptor(o, n) == ProtoGet(o.plugin, n) = Undefined

\* Object.defineProperties(instance, newDescriptors) for one trait, followed
\* by the trait's construct hook (Trait.prototype.construct does nothing).
ApplyTrait(o, t) ==
    [o EXCEPT !.own = [n \in MemberNames |->
        IF n \in DescriptorKeys(t) /\ KeepDescriptor(o, n)
        THEN Descriptor(t, n) ELSE o.own[n]]]

\* traitInstance.construct.call(instance): the construct of Configurable
\* throws unless this.element is an HTML element and then calls
\* this.refreshConfig(); the construct of the other traits does nothing.
ConstructHook(o, t) ==
    IF t # "cfg" THEN "none"
    ELSE IF Get(o, "element") # HTMLElement THEN "NotAnElement"
    ELSE IF Get(o, "refreshConfig") = Undefined THEN "TypeError"
    ELSE "none"

\* traits.forEach(...): r is [err, obj, applied, warnings]; applied lists
\* the traits whose composition completed, and a construct hook that throws
\* ends the loop.
\* One iteration of traits.forEach on r: a warning for an unregistered
\* trait; otherwise the properties are defined and the construct hook runs.
\* After a hook threw, no further iteration happens.
AfterHook(r, t, o, e) ==
    IF e # "none"
    THEN [r EXCEPT !.err = e, !.obj = o]
    ELSE [r EXCEPT !.obj = o, !.applied = Append(@, t)]

Composed(r, t, o) == AfterHook(r, t, o, ConstructHook(o, t))

Iteration(r, t) ==
    IF r.err # "none" THEN r
    ELSE IF ~HasTrait(t) THEN [r EXCEPT !.warnings = Append(@, t)]
    ELSE Composed(r, t, ApplyTrait(r.obj, t))

ApplyTraits(list, r) ==
    LET after[k \in 0..Len(list)] ==
            IF k = 0 THEN r ELSE Iteration(after[k - 1], list[k])
    IN  after[Len(list)]

\* loadTraits(instance).
LoadTraits(o) ==
    LET w == WalkAncestry(This, o, << >>)
    IN  IF w.err # "none"
        THEN [err |-> w.err, obj |-> o, applied |-> << >>, warnings |-> << >>]
        ELSE ApplyTraits(w.traits, [err |-> "none", obj |-> o,
                                    applied |-> << >>, warnings |-> << >>])

(***************************************************************************)
(* State                                                                   *)
(***************************************************************************)
VARIABLES
    plugins,     \* registry: the registered plugin names (keys of its table)
    loaders,     \* loaders[p]: the PluginLoader of the plugin under observation
    objs,        \* heap: the instances the loaders recorded, by identity
    traitProto,  \* properties written on Trait.prototype, by name
    last,        \* outcome of the most recent operation
    members,     \* registry: the names of its literal members
    held,        \* the plugin names whose callable a client obtained and kept
    widget,      \* an instance composed with FiresEvents: its three fields
    promises,    \* the deferred results listeners returned, by identity
    triggers,    \* the triggerPromiseEvent calls made, in order
    globalEvents \* the global (promise) events sent to the registry, in order

\* The state of the registry's mediators and of the event trait.
eventVars == <<widget, promises, triggers, globalEvents>>

vars == <<plugins, loaders, objs, traitProto, last, members, held, eventVars>>

\* A loader as its constructor leaves it.
\*   instances   : #instances (identities of live instances)
\*   initialised : #singleton.initialised
\*   mocks       : #mocks; "none" where the map has no entry
\*   orig        : #originalFunctions; Absent where the map has no entry
\*   calls       : how often this loader invoked the factory, the construct
\*                 hook and the init hook (observation only)
NoCalls == [factory |-> 0, construct |-> 0, init |-> 0]

NewLoader ==
    [instances   |-> {},
     calls       |-> NoCalls,
     initialised |-> FALSE,
     mocks       |-> [m \in MockNames |-> "none"],
     orig        |-> [m \in MockNames |-> Absent]]

\* The outcome record of an operation.
Outcome(op, p, arg, err) ==
    [op |-> op, plugin |-> p, arg |-> arg, err |-> err, unmet |-> << >>,
     ret |-> 0, steps |-> << >>, applied |-> << >>, warnings |-> << >>,
     value |-> Undefined]

\* The members the mediators name on the registry: its plugin table, its
\* existence check, and the four registry-management operations.
ForbiddenNames == {"attachAbstracts", "loadInbuilt", "initialise", "initialiseSingletons"}

RegistryMembers == {"plugins", "hasPlugin"} \cup ForbiddenNames

\* The fields of a FiresEvents instance as its class declares them, with a
\* prefix and the local-only switch as the plugin that uses the trait set them.
NewWidget(localOnly) ==
    [eventListeners |-> << >>, localEventsOnly |-> localOnly, eventPrefix |-> "widget"]

Init ==
    /\ plugins = {}
    /\ members = RegistryMembers
    /\ held = {}
    /\ widget = NewWidget(FALSE)
    /\ promises = << >>
    /\ triggers = << >>
    /\ globalEvents = << >>
    /\ \E s \in PluginNames : loaders = [p \in {s} |-> NewLoader]
    /\ objs = << >>
    /\ traitProto = [m \in MockNames |-> Absent]
    /\ last = Outcome("new", "", "", "none")

(***************************************************************************)
(* Registry (Snowboard)                                                    *)
(***************************************************************************)
\* snowboard.hasPlugin(name): case-insensitive existence check.
HasPlugin(reg, name) == ToLowerCase(name) \in reg

\* snowboard.getPluginNames(): the keys of the plugin table.
GetPluginNames(reg) == reg

\* A registration that keeps the loader the name had before.
ReplacedKeeping(p) == loaders

\* The loader table after name p got a new loader (or lost its loader): the
\* loaders of the other names are not observed.
Replaced(p) ==
    IF p \in DOMAIN loaders THEN [loaders EXCEPT ![p] = NewLoader] ELSE loaders

\* snowboard.registerPlugin / addPlugin: stores (or replaces) the loader.
RegisterPlugin(p) ==
    /\ UNCHANGED eventVars
    /\ plugins' = plugins \cup {p}
    /\ loaders' = Replaced(p)
    /\ last' = Outcome("registerPlugin", p, "", "none")
    /\ UNCHANGED <<objs, traitProto, members, held>>

\* snowboard.removePlugin: removes the loader entry.
RemovePlugin(p) ==
    /\ UNCHANGED eventVars
    /\ p \in plugins
    /\ plugins' = plugins \ {p}
    /\ loaders' = Replaced(p)
    /\ last' = Outcome("removePlugin", p, "", "none")
    /\ UNCHANGED <<objs, traitProto, members, held>>

(***************************************************************************)
(* PluginLoader: queries                                                   *)
(***************************************************************************)
\* isSingleton().
IsSingleton(p) == PluginClass(p).singleton = TRUE

\* getDependencies(): the declared list, each name lower-cased.
GetDependencies(p) ==
    [k \in 1..Len(PluginClass(p).deps) |-> ToLowerCase(PluginClass(p).deps[k])]

\* A loader that asks for no dependency.
DependenciesFulfilledUnchecked(p, reg) == TRUE

\* A result remembered from the time an instance was built.
DependenciesFulfilledCached(p, reg) ==
    \/ loaders[p].instances # {}
    \/ \A k \in 1..Len(GetDependencies(p)) : HasPlugin(reg, GetDependencies(p)[k])

\* dependenciesFulfilled().
DependenciesFulfilled(p, reg) ==
    \A k \in 1..Len(GetDependencies(p)) : HasPlugin(reg, GetDependencies(p)[k])

\* The unmet list computed for the error message of getInstance.
UnmetDependencies(p, reg) ==
    SelectSeq(GetDependencies(p), LAMBDA d : d \notin GetPluginNames(reg))

\* A loader that initialises its singleton on every request.
NoInstancesUnchecked(l) == TRUE

\* #instances.size === 0
NoInstances(l) == l.instances = {}

\* #instances.values().next().value: the first inserted member, 0 if none.
FirstInstance(l) ==
    IF l.instances = {} THEN 0
    ELSE CHOOSE i \in l.instances : \A j \in l.instances : i <= j

\* #mocks.size > 0
HasMocks(l) == \E m \in MockNames : l.mocks[m] # "none"

\* A mock() that accepts every method name.
MethodMissingIgnored(p, m) == FALSE

\* !this.#instance.prototype[methodName]: the method does not exist.
MethodMissing(p, m) == ProtoGet(p, m) = Undefined

\* Object.getPrototypeOf(this.#instance)[methodName]: a static member of the
\* parent class of the plugin class; no class declares static members.
ParentClassMember(p, m) ==
    IF m \in ClassOwnNames THEN <<"PluginBase", m>> ELSE Undefined

(***************************************************************************)
(* PluginLoader: mock application                                          *)
(***************************************************************************)
\* The arrow function installed by mock(): it calls f with the loader first.
MockFnOfLoader(f) == <<"mock-loader", f>>

\* The two forEach loops over a property table: every original function is
\* written back first, then every mock is written over it.
RestoreThenApply(table, l) ==
    [m \in MockNames |->
        IF l.mocks[m] # "none" THEN MockFn(l.mocks[m])
        ELSE IF l.orig[m] # Absent THEN l.orig[m]
        ELSE table[m]]

\* Assignment instance.prototype[m] = v for every m in ms, v given by
\* table: the write lands on whatever object instance.prototype is, and
\* throws when instance.prototype is undefined.  r is [err, obj, tp].
WriteOnPrototype(o, tp, Update(_)) ==
    LET target == Get(o, "prototype")
    IN  IF target = PlainObject
        THEN [err |-> "none", obj |-> [o EXCEPT !.pobj = Update(@)], tp |-> tp]
        ELSE IF target = TraitPrototype
        THEN [err |-> "none", obj |-> o, tp |-> Update(tp)]
        ELSE [err |-> "TypeError", obj |-> o, tp |-> tp]

\* The "apply mocked methods" block of getInstance.
ApplyMocks(o, tp, l) ==
    IF HasMocks(l)
    THEN WriteOnPrototype(o, tp, LAMBDA table : RestoreThenApply(table, l))
    ELSE [err |-> "none", obj |-> o, tp |-> tp]

(***************************************************************************)
(* PluginLoader: construction                                              *)
(***************************************************************************)
\* newInstance.detach = () => this.#instances.delete(newInstance)
InstallDetach(o) == [o EXCEPT !.own["detach"] = DetachHook]

\* The outcome of the shared steps given what loadTraits returned.
Finished(lt, pre) ==
    IF lt.err # "none"
    THEN [err |-> lt.err, obj |-> lt.obj,
          steps |-> pre \o <<"detach", "construct", "traits">>,
          applied |-> lt.applied, warnings |-> lt.warnings]
    ELSE [err |-> "none", obj |-> lt.obj,
          steps |-> pre \o <<"detach", "construct", "traits", "init", "add">>,
          applied |-> lt.applied, warnings |-> lt.warnings]

\* A loader that goes on with init and the recording when loadTraits threw.
FinishSwallowing(o, pre) ==
    [Finished(LoadTraits(InstallDetach(o)), pre) EXCEPT
        !.err = "none",
        !.steps = pre \o <<"detach", "construct", "traits", "init", "add">>]

\* The steps from the detach hook to the recording of the instance, shared
\* by getInstance and initialiseSingleton: detach hook, construct,
\* loadTraits, init, #instances.add.  loadTraits may throw.
Finish(o, pre) == Finished(LoadTraits(InstallDetach(o)), pre)

\* initialiseSingleton(...args) on a singleton's loader.
InitialiseSingleton(p, args) == Finish(NewInstance(p, args), <<"factory">>)

\* A non-singleton branch that applies the mocks after the recording.
BuildInstanceMocksLast(p, args, l, tp) ==
    LET f  == Finish(NewInstance(p, args), <<"factory">>)
        am == ApplyMocks(f.obj, tp, l)
    IN  IF f.err # "none" THEN f @@ [tp |-> tp]
        ELSE [err |-> am.err, obj |-> am.obj,
              steps |-> IF HasMocks(l) THEN Append(f.steps, "mocks") ELSE f.steps,
              applied |-> f.applied, warnings |-> f.warnings, tp |-> am.tp]

\* The non-singleton branch of getInstance: factory, mocks, then Finish.
\* The result carries the table of Trait.prototype as tp.
BuildInstance(p, args, l, tp) ==
    LET am == ApplyMocks(NewInstance(p, args), tp, l)
    IN  IF am.err # "none"
        THEN [err |-> am.err, obj |-> am.obj, steps |-> <<"factory">>,
              applied |-> << >>, warnings |-> << >>, tp |-> am.tp]
        ELSE Finish(am.obj, IF HasMocks(l) THEN <<"factory", "mocks">>
                                           ELSE <<"factory">>)
                 @@ [tp |-> am.tp]

\* The invocation counters after an operation that ran `steps`.
Count(c, steps) ==
    LET Ran(s) == IF \E k \in 1..Len(steps) : steps[k] = s THEN 1 ELSE 0
    IN  [factory   |-> c.factory + Ran("factory"),
         construct |-> c.construct + Ran("construct"),
         init      |-> c.init + Ran("init")]

\* Loader l with the invocations of `steps` counted.
Counted(l, steps) == [l EXCEPT !.calls = Count(@, steps)]

\* Whether the factory of p may still be invoked within the bounds.
MayBuild(p) == loaders[p].calls.factory < MaxCalls /\ Len(objs) < MaxObjects

(***************************************************************************)
(* PluginLoader: operations                                                *)
(***************************************************************************)
\* Recording a built instance: #instances.add(newInstance).
Record(l, id) == [l EXCEPT !.instances = @ \cup {id}]

\* A singleton branch that puts a removed instance back instead of building.
SingletonBranchReusing(p, args, l, h, tp) ==
    LET old == {i \in 1..Len(h) : h[i].plugin = p /\ i \notin l.instances}
        pick == IF l.instances # {} THEN FirstInstance(l)
                ELSE CHOOSE i \in old : TRUE
    IN  IF l.instances = {} /\ old = {}
        THEN [err |-> "TypeError", l |-> l, h |-> h, tp |-> tp, ret |-> 0,
              steps |-> << >>, applied |-> << >>, warnings |-> << >>]
        ELSE [err |-> "none", l |-> Record(l, pick), h |-> h, tp |-> tp,
              ret |-> pick, steps |-> << >>, applied |-> << >>,
              warnings |-> << >>]

\* The singleton branch of getInstance on loader l, heap h and
\* Trait.prototype table tp: initialise when there is no instance, then
\* re-apply the mocks to the first instance and return it.
SingletonBranch(p, args, l, h, tp) ==
    LET build == NoInstances(l)
        r  == InitialiseSingleton(p, args)
        id == Len(h) + 1
    IN  IF build /\ r.err # "none"
        THEN [err |-> r.err, l |-> l, h |-> h, tp |-> tp, ret |-> 0,
              steps |-> r.steps, applied |-> r.applied, warnings |-> r.warnings]
        ELSE
        LET l1 == IF build THEN [Record(l, id) EXCEPT !.initialised = TRUE] ELSE l
            h1 == IF build THEN Append(h, r.obj) ELSE h
            st == IF build THEN r.steps ELSE << >>
            inst == FirstInstance(l1)
            am == ApplyMocks(h1[inst], tp, l1)
        IN  [err |-> am.err,
             l |-> l1,
             h |-> [h1 EXCEPT ![inst] = am.obj],
             tp |-> am.tp,
             ret |-> IF am.err = "none" THEN inst ELSE 0,
             steps |-> IF HasMocks(l1) THEN Append(st, "mocks") ELSE st,
             applied |-> IF build THEN r.applied ELSE << >>,
             warnings |-> IF build THEN r.warnings ELSE << >>]

\* The non-singleton branch of getInstance.
InstanceBranch(p, args, l, h, tp) ==
    LET r  == BuildInstance(p, args, l, tp)
        id == Len(h) + 1
    IN  IF r.err # "none"
        THEN [err |-> r.err, l |-> l, h |-> h, tp |-> r.tp, ret |-> 0,
              steps |-> r.steps, applied |-> r.applied, warnings |-> r.warnings]
        ELSE [err |-> "none", l |-> Record(l, id), h |-> Append(h, r.obj),
              tp |-> r.tp, ret |-> id,
              steps |-> r.steps, applied |-> r.applied, warnings |-> r.warnings]

\* getInstance(...args) on the loader registered as p.
GetInstance(p, args) ==
    /\ UNCHANGED <<members, held, eventVars>>
    /\ p \in plugins \cap DOMAIN loaders
    /\ IF ~DependenciesFulfilled(p, plugins)
       THEN /\ last' = [Outcome("getInstance", p, args, "MissingDependency")
                            EXCEPT !.unmet = UnmetDependencies(p, plugins)]
            /\ UNCHANGED <<plugins, loaders, objs, traitProto>>
       ELSE
       LET l == loaders[p]
           r == IF IsSingleton(p)
                THEN SingletonBranch(p, args, l, objs, traitProto)
                ELSE InstanceBranch(p, args, l, objs, traitProto)
       IN  /\ (IsSingleton(p) /\ ~NoInstances(l)) \/ MayBuild(p)
           /\ loaders' = [loaders EXCEPT ![p] = Counted(r.l, r.steps)]
           /\ objs' = r.h
           /\ traitProto' = r.tp
           /\ last' = [Outcome("getInstance", p, args, r.err)
                          EXCEPT !.ret = r.ret, !.steps = r.steps,
                                 !.applied = r.applied, !.warnings = r.warnings]
           /\ UNCHANGED plugins

\* mock(methodName, callback) on the loader registered as p.
Mock(p, m, f) ==
    /\ UNCHANGED <<members, held, eventVars>>
    /\ p \in plugins \cap DOMAIN loaders
    /\ IF MethodMissing(p, m)
       THEN /\ last' = Outcome("mock", p, m, "UnknownMethod")
            /\ UNCHANGED <<plugins, loaders, objs, traitProto>>
       ELSE
       LET l0 == loaders[p]
           l  == [l0 EXCEPT !.mocks[m] = f, !.orig[m] = ParentClassMember(p, m)]
           build == IsSingleton(p) /\ NoInstances(l)
           r  == InitialiseSingleton(p, NoArgs)
           id == Len(objs) + 1
       IN  /\ build => MayBuild(p)
           /\ IF ~build
              THEN /\ loaders' = [loaders EXCEPT ![p] = l]
                   /\ last' = Outcome("mock", p, m, "none")
                   /\ UNCHANGED <<objs, traitProto>>
              ELSE IF r.err # "none"
              THEN /\ loaders' = [loaders EXCEPT ![p] = Counted(l, r.steps)]
                   /\ last' = [Outcome("mock", p, m, r.err) EXCEPT !.steps = r.steps]
                   /\ UNCHANGED <<objs, traitProto>>
              ELSE
              LET l1 == [Record(l, id) EXCEPT !.initialised = TRUE]
                  w  == WriteOnPrototype(r.obj, traitProto,
                            LAMBDA table : [table EXCEPT ![m] = MockFnOfLoader(f)])
              IN  /\ loaders' = [loaders EXCEPT ![p] = Counted(l1, r.steps)]
                  /\ objs' = Append(objs, w.obj)
                  /\ traitProto' = w.tp
                  /\ last' = [Outcome("mock", p, m, w.err)
                                 EXCEPT !.steps = Append(r.steps, "mocks"),
                                        !.ret = id,
                                        !.applied = r.applied,
                                        !.warnings = r.warnings]
       /\ UNCHANGED plugins

\* unmock(methodName) on the loader registered as p.
Unmock(p, m) ==
    /\ UNCHANGED <<members, held, eventVars>>
    /\ p \in plugins \cap DOMAIN loaders
    /\ LET l == loaders[p]
           inst == FirstInstance(l)
           w == WriteOnPrototype(objs[inst], traitProto,
                    LAMBDA table : [table EXCEPT ![m] =
                        IF l.orig[m] = Absent THEN Undefined ELSE l.orig[m]])
           l1 == [l EXCEPT !.mocks[m] = "none", !.orig[m] = Absent]
       IN  IF l.mocks[m] = "none"
           THEN /\ last' = Outcome("unmock", p, m, "none")
                /\ UNCHANGED <<loaders, objs, traitProto>>
           ELSE IF ~IsSingleton(p)
           THEN /\ loaders' = [loaders EXCEPT ![p] = l1]
                /\ last' = Outcome("unmock", p, m, "none")
                /\ UNCHANGED <<objs, traitProto>>
           ELSE IF inst = 0 \/ w.err # "none"
           THEN /\ last' = Outcome("unmock", p, m, "TypeError")
                /\ UNCHANGED <<loaders, objs, traitProto>>
           ELSE /\ loaders' = [loaders EXCEPT ![p] = l1]
                /\ objs' = [objs EXCEPT ![inst] = w.obj]
                /\ traitProto' = w.tp
                /\ last' = Outcome("unmock", p, m, "none")
    /\ UNCHANGED plugins

(***************************************************************************)
(* PluginBase: operations on an instance                                   *)
(***************************************************************************)
\* The objects of plugin p that an earlier loader of p, or this one, built
\* and that are no longer in the live set.
Removed(p) ==
    {i \in 1..Len(objs) : objs[i].plugin = p /\ i \notin loaders[p].instances}

\* The objects whose destructor has completed.
DestructedObjects == {i \in 1..Len(objs) : Get(objs[i], "destructed") = True}

\* Observation: whether the call on object i repeats an earlier one.
Repeated(done, i) == IF i \in done THEN "again" ELSE "first"

\* The stub detach of the plugin base in place of the loader's hook.
AfterDetachStub(insts, i) == insts

\* A detach hook that empties the live set.
AfterDetachClearing(insts, i) == {}

\* A detach hook that puts a removed instance back.
AfterDetachToggling(insts, i) ==
    IF i \in insts THEN insts \ {i} ELSE insts \cup {i}

\* The instances set after instance i's detach member is called: the hook
\* the loader installed deletes i; PluginBase's stub does nothing.
AfterDetach(insts, i) ==
    IF Get(objs[i], "detach") = DetachHook THEN insts \ {i} ELSE insts

\* instance.detach()
Detach(i) ==
    /\ UNCHANGED <<members, held, eventVars>>
    /\ i \in 1..Len(objs)
    /\ loaders' = [loaders EXCEPT ![objs[i].plugin].instances = AfterDetach(@, i)]
    /\ last' = [Outcome("detach", objs[i].plugin, Repeated(Removed(objs[i].plugin), i), "none")
                   EXCEPT !.ret = i, !.steps = <<"detach">>]
    /\ UNCHANGED <<plugins, objs, traitProto>>

\* A destructor that flips the flag.
DestructedToggled(o) ==
    [o EXCEPT !.own["destructed"] = IF @ = True THEN False ELSE True]

\* this.destructed = true
Destructed(o) == [o EXCEPT !.own["destructed"] = True]

\* instance.destructor(): destruct(), detach(), destructed = true.
Destructor(i) ==
    /\ UNCHANGED <<members, held, eventVars>>
    /\ i \in 1..Len(objs)
    /\ loaders' = [loaders EXCEPT ![objs[i].plugin].instances = AfterDetach(@, i)]
    /\ objs' = [objs EXCEPT ![i] = Destructed(@)]
    /\ last' = [Outcome("destructor", objs[i].plugin, Repeated(DestructedObjects, i), "none")
                   EXCEPT !.ret = i, !.steps = <<"destruct", "detach">>]
    /\ UNCHANGED <<plugins, traitProto>>

(***************************************************************************)
(* Access mediators (ProxyHandler, InnerProxyHandler)                      *)
(***************************************************************************)
\* The two handlers.
Mediators == {"ProxyHandler", "InnerProxyHandler"}

\* Names registered as plugins while the mediators are exercised: an
\* ordinary name, the name of a literal member of the registry, and the name
\* of a forbidden operation.
MediatorPlugins == {"alert", "plugins", "initialise"}

\* The abstracts attached to the registry.
AbstractNames == {"PluginBase"}

\* Property names asked for through a mediator.
PropNames ==
    {"alert", "Alert", "plugins", "hasPlugin", "initialise", "loadInbuilt",
     "PluginBase", "missing"}

\* snowboard.hasAbstract(name).
HasAbstract(name) == name \in AbstractNames

\* The values a read resolves to.
Member(n) == <<"Snowboard", n>>
AbstractClass(n) == <<"abstract", n>>
PluginCallable(n) == <<"getInstance", n>>

\* Reflect.get(target, prop) and Reflect.has(target, prop).
ReflectGet(ms, prop) == IF prop \in ms THEN Member(prop) ELSE Undefined
ReflectHas(ms, prop) == IF prop \in ms THEN True ELSE False

\* ProxyHandler.get on registry (reg, ms).
ProxyHandlerGet(reg, ms, prop) ==
    IF HasAbstract(prop)
    THEN [err |-> "none", value |-> AbstractClass(prop)]
    ELSE IF HasPlugin(reg, prop)
    THEN [err |-> "none", value |-> PluginCallable(ToLowerCase(prop))]
    ELSE [err |-> "none", value |-> ReflectGet(ms, prop)]

\* ProxyHandler.has.
ProxyHandlerHas(reg, ms, prop) ==
    IF HasAbstract(prop) THEN True
    ELSE IF HasPlugin(reg, prop) THEN True
    ELSE ReflectHas(ms, prop)

\* A get that looks for a plugin before it looks at the forbidden list.
InnerProxyHandlerGetPluginFirst(reg, ms, prop) ==
    IF HasPlugin(reg, ToLowerCase(prop))
    THEN [err |-> "none", value |-> PluginCallable(ToLowerCase(prop))]
    ELSE IF prop \in ForbiddenNames
    THEN [err |-> "Forbidden", value |-> Undefined]
    ELSE [err |-> "none", value |-> ReflectGet(ms, prop)]

\* InnerProxyHandler.get.
InnerProxyHandlerGet(reg, ms, prop) ==
    IF prop \in ForbiddenNames
    THEN [err |-> "Forbidden", value |-> Undefined]
    ELSE IF HasPlugin(reg, ToLowerCase(prop))
    THEN [err |-> "none", value |-> PluginCallable(ToLowerCase(prop))]
    ELSE [err |-> "none", value |-> ReflectGet(ms, prop)]

\* A has that knows the members of the registry only.
InnerProxyHandlerHasMembersOnly(reg, ms, prop) == ReflectHas(ms, prop)

\* InnerProxyHandler.has.
InnerProxyHandlerHas(reg, ms, prop) ==
    IF prop \in ForbiddenNames THEN False
    ELSE IF HasPlugin(reg, ToLowerCase(prop)) THEN True
    ELSE ReflectHas(ms, prop)

\* A deleteProperty that hands every other name to the registry object.
DeletePropertyReflected(reg, ms, prop) ==
    IF HasPlugin(reg, prop)
    THEN [plugins |-> reg \ {ToLowerCase(prop)}, members |-> ms, value |-> True]
    ELSE [plugins |-> reg, members |-> ms \ {prop}, value |-> True]

\* ProxyHandler.deleteProperty: removePlugin for a plugin name, false for
\* every other name.
DeleteProperty(reg, ms, prop) ==
    IF HasPlugin(reg, prop)
    THEN [plugins |-> reg \ {ToLowerCase(prop)}, members |-> ms, value |-> True]
    ELSE [plugins |-> reg, members |-> ms, value |-> False]

\* Read of a property through a mediator.
MediatorGet(h, prop) ==
    /\ LET r == IF h = "ProxyHandler"
                THEN ProxyHandlerGet(plugins, members, prop)
                ELSE InnerProxyHandlerGet(plugins, members, prop)
       IN  /\ last' = [Outcome("get", h, prop, r.err) EXCEPT !.value = r.value]
           /\ held' = IF r.value = PluginCallable(ToLowerCase(prop))
                      THEN held \cup {ToLowerCase(prop)} ELSE held
    /\ UNCHANGED <<plugins, loaders, objs, traitProto, members, eventVars>>

\* Existence check (prop in snowboard) through a mediator.
MediatorHas(h, prop) ==
    /\ LET v == IF h = "ProxyHandler"
                THEN ProxyHandlerHas(plugins, members, prop)
                ELSE InnerProxyHandlerHas(plugins, members, prop)
       IN  last' = [Outcome("has", h, prop, "none") EXCEPT !.value = v]
    /\ UNCHANGED <<plugins, loaders, objs, traitProto, members, held, eventVars>>

\* delete snowboard[prop] through the external mediator.
MediatorDelete(prop) ==
    /\ LET r == DeleteProperty(plugins, members, prop)
       IN  /\ plugins' = r.plugins
           /\ members' = r.members
           /\ loaders' = IF r.plugins # plugins THEN Replaced(ToLowerCase(prop))
                                                ELSE loaders
           /\ last' = [Outcome("delete", "ProxyHandler", prop, "none")
                          EXCEPT !.value = r.value]
    /\ UNCHANGED <<objs, traitProto, held, eventVars>>

\* A call of the function a read of plugin name n returned earlier:
\* plugins.get(n).getInstance(...params), the loader looked up at the time
\* of the call; without a loader under n the call fails on undefined.
Invoke(n, args) ==
    /\ n \in held
    /\ IF n \in plugins
       THEN GetInstance(n, args)
       ELSE /\ last' = Outcome("getInstance", n, args, "TypeError")
            /\ UNCHANGED <<plugins, loaders, objs, traitProto, members, held,
                           eventVars>>

(***************************************************************************)
(* Event trait (FiresEvents)                                               *)
(***************************************************************************)
\* Event names, and the callbacks registered as listeners: "wait" returns a
\* new deferred result, "veto" returns false.
EventNames == {"save", "load"}

EventCallbacks == {"wait", "veto"}

\* An entry of eventListeners.  on() stores the callback itself (at = 0);
\* once() stores a wrapper around it that remembers the length of the list
\* after its own push (at).  fired counts the invocations of a wrapper.
Entry(e, cb, at) == [event |-> e, callback |-> cb, at |-> at, fired |-> 0]

\* A listener whose result is never false.
ReturnsNothing(entry) == Undefined

\* What the function stored in an entry returns: a wrapper returns nothing,
\* whatever its callback returned.
Returns(entry) ==
    IF entry.at # 0 THEN Undefined
    ELSE IF entry.callback = "veto" THEN False
    ELSE <<"promise", 0>>

\* A deferred result (promise) by identity, and a listener entry as a value.
PromiseValue(id) == <<"promise", id>>
ObjectValue(entry) == <<"object", entry.callback>>
IsPromise(v) == v[1] = "promise"

\* eventListeners.filter((registeredEvent) => registeredEvent.event === eventName)
ListenersFor(entries, e) == SelectSeq(entries, LAMBDA entry : entry.event = e)

\* How many of the first k entries return a deferred result.
RECURSIVE PromisesBefore(_, _)
PromisesBefore(entries, k) ==
    IF k = 0 THEN 0
    ELSE PromisesBefore(entries, k - 1)
            + (IF IsPromise(Returns(entries[k])) THEN 1 ELSE 0)

\* events.map((event) => event.callback(...parameters)): the values the
\* callbacks return; the deferred results are new, numbered from `next`.
CallbackResults(entries, next) ==
    [k \in 1..Len(entries) |->
        IF IsPromise(Returns(entries[k]))
        THEN PromiseValue(next + PromisesBefore(entries, k - 1))
        ELSE Returns(entries[k])]

\* events.filter((event) => event !== null, results): the second argument
\* of Array.prototype.filter is the this-value of the predicate, so the
\* array is the listener entries themselves.
Awaited(entries, results) ==
    [k \in 1..Len(entries) |-> ObjectValue(entries[k])]

\* The state of Promise.all(values): a value that is no deferred result
\* counts as resolved.
PromiseAll(values, proms) ==
    IF \E k \in 1..Len(values) :
          IsPromise(values[k]) /\ proms[values[k][2]].state = "rejected"
    THEN "rejected"
    ELSE IF \E k \in 1..Len(values) :
          IsPromise(values[k]) /\ proms[values[k][2]].state = "pending"
    THEN "pending"
    ELSE "resolved"

\* The listeners for e with their positions in the list, in list order.
Items(list, e) ==
    SelectSeq([k \in 1..Len(list) |-> [entry |-> list[k], pos |-> k]],
              LAMBDA item : item.entry.event = e)

\* this.eventListeners.splice(i - 1, 1): nothing is removed past the end.
Splice(list, i) ==
    IF i \in 1..Len(list)
    THEN SubSeq(list, 1, i - 1) \o SubSeq(list, i + 1, Len(list))
    ELSE list

\* The positions of the listeners still to be invoked after that splice; a
\* listener that was removed from the list (pos 0) is still invoked.
Shifted(items, i, len) ==
    [k \in 1..Len(items) |->
        [items[k] EXCEPT !.pos = IF i \notin 1..len \/ @ < i THEN @
                                 ELSE IF @ = i THEN 0
                                 ELSE @ - 1]]

\* The list after the function of `entry` ran: a wrapper made by once()
\* removes the element at the index it remembers.
Spliced(list, entry) ==
    IF entry.at # 0 THEN Splice(list, entry.at) ELSE list

\* The invocation of the listeners of `items` in order on list `list`: a
\* wrapper calls its callback and splices the list; with `stop`, the loop
\* skips every listener after one that returned false.
RECURSIVE Dispatch(_, _, _, _)
Dispatch(items, list, invoked, stop) ==
    IF items = << >>
    THEN [list |-> list, invoked |-> invoked, cancelled |-> FALSE]
    ELSE
    LET entry   == Head(items).entry
        pos     == Head(items).pos
        counted == IF entry.at # 0 /\ pos # 0
                   THEN [list EXCEPT ![pos].fired = @ + 1] ELSE list
        after   == Spliced(counted, entry)
        rest    == IF after = counted THEN Tail(items)
                   ELSE Shifted(Tail(items), entry.at, Len(counted))
    IN  IF stop /\ Returns(entry) = False
        THEN [list |-> after, invoked |-> Append(invoked, entry), cancelled |-> TRUE]
        ELSE Dispatch(rest, after, Append(invoked, entry), stop)

\* on(event, callback)
On(e, cb) ==
    /\ Len(widget.eventListeners) < MaxListeners
    /\ widget' = [widget EXCEPT !.eventListeners = Append(@, Entry(e, cb, 0))]
    /\ last' = Outcome("on", "", "", "none")
    /\ UNCHANGED <<plugins, loaders, objs, traitProto, members, held,
                   promises, triggers, globalEvents>>

\* off(event, callback)
Off(e, cb) ==
    /\ widget' = [widget EXCEPT !.eventListeners =
                      SelectSeq(@, LAMBDA entry :
                          entry.event # e \/ entry.callback # cb \/ entry.at # 0)]
    /\ last' = Outcome("off", "", "", "none")
    /\ UNCHANGED <<plugins, loaders, objs, traitProto, members, held,
                   promises, triggers, globalEvents>>

\* once(event, callback)
Once(e, cb) ==
    /\ Len(widget.eventListeners) < MaxListeners
    /\ widget' = [widget EXCEPT !.eventListeners =
                      Append(@, Entry(e, cb, Len(@) + 1))]
    /\ last' = Outcome("once", "", "", "none")
    /\ UNCHANGED <<plugins, loaders, objs, traitProto, members, held,
                   promises, triggers, globalEvents>>

\* The global event sent for trigger t of event e with parameters a.
GlobalEvent(kind, e, a, t) ==
    [name |-> <<widget.eventPrefix, e>>, kind |-> kind, params |-> a, trigger |-> t]

\* triggerEvent(eventName, ...parameters): returns at once without
\* listeners; otherwise invokes the listeners until one returns false, then
\* sends the global event unless cancelled or localEventsOnly.
TriggerEvent(e, a) ==
    LET events == ListenersFor(widget.eventListeners, e)
        d      == Dispatch(Items(widget.eventListeners, e), widget.eventListeners,
                           << >>, TRUE)
    IN  /\ Len(triggers) < MaxTriggers
        /\ IF events = << >>
           THEN /\ last' = Outcome("triggerEvent", "", e, "none")
                /\ UNCHANGED <<widget, triggers, globalEvents>>
           ELSE /\ widget' = [widget EXCEPT !.eventListeners = d.list]
                /\ triggers' = Append(triggers,
                       [event |-> e, params |-> a, awaited |-> << >>,
                        reaction |-> "none"])
                /\ globalEvents' =
                       IF ~d.cancelled /\ ~widget.localEventsOnly
                       THEN Append(globalEvents,
                                   GlobalEvent("globalEvent", e, a, Len(triggers) + 1))
                       ELSE globalEvents
                /\ last' = [Outcome("triggerEvent", "", e, "none")
                               EXCEPT !.ret = Len(triggers) + 1,
                                      !.steps = d.invoked]
        /\ UNCHANGED <<plugins, loaders, objs, traitProto, members, held, promises>>

\* triggerPromiseEvent(eventName, ...parameters): returns at once without
\* listeners; otherwise invokes every listener, and registers the reaction
\* on Promise.all(promises).
TriggerPromiseEvent(e, a) ==
    LET events  == ListenersFor(widget.eventListeners, e)
        results == CallbackResults(events, Len(promises) + 1)
        created == PromisesBefore(events, Len(events))
        d       == Dispatch(Items(widget.eventListeners, e), widget.eventListeners,
                            << >>, FALSE)
    IN  /\ Len(triggers) < MaxPromiseTriggers
        /\ IF events = << >>
           THEN /\ last' = Outcome("triggerPromiseEvent", "", e, "none")
                /\ UNCHANGED <<widget, promises, triggers>>
           ELSE /\ widget' = [widget EXCEPT !.eventListeners = d.list]
                /\ promises' = promises \o
                       [k \in 1..created |->
                           [trigger |-> Len(triggers) + 1, state |-> "pending"]]
                /\ triggers' = Append(triggers,
                       [event    |-> e,
                        params   |-> a,
                        awaited  |-> Awaited(events, results),
                        reaction |-> "registered"])
                /\ last' = [Outcome("triggerPromiseEvent", "", e, "none")
                               EXCEPT !.ret = Len(triggers) + 1,
                                      !.steps = d.invoked]
        /\ UNCHANGED <<plugins, loaders, objs, traitProto, members, held, globalEvents>>

\* A deferred result that a listener returned is resolved or rejected.
Settle(id, outcome) ==
    /\ id \in 1..Len(promises)
    /\ promises[id].state = "pending"
    /\ promises' = [promises EXCEPT ![id].state = outcome]
    /\ last' = Outcome("settle", "", "", "none")
    /\ UNCHANGED <<plugins, loaders, objs, traitProto, members, held,
                   widget, triggers, globalEvents>>

\* The reaction registered with .then(): on fulfilment of Promise.all the
\* global promise event is sent unless localEventsOnly; on rejection
\* nothing is done.
React(t) ==
    /\ t \in 1..Len(triggers)
    /\ triggers[t].reaction = "registered"
    /\ PromiseAll(triggers[t].awaited, promises) # "pending"
    /\ LET all == PromiseAll(triggers[t].awaited, promises)
       IN  /\ triggers' = [triggers EXCEPT ![t].reaction =
                              IF all = "resolved" THEN "fulfilled" ELSE "rejected"]
           /\ globalEvents' =
                  IF all = "resolved" /\ ~widget.localEventsOnly
                  THEN Append(globalEvents,
                          GlobalEvent("globalPromiseEvent", triggers[t].event,
                                      triggers[t].params, t))
                  ELSE globalEvents
           /\ last' = Outcome("react", "", "", "none")
    /\ UNCHANGED <<plugins, loaders, objs, traitProto, members, held, widget, promises>>

(***************************************************************************)
(* Specification                                                           *)
(***************************************************************************)
Next ==
    \/ \E p \in PluginNames : RegisterPlugin(p)
    \/ \E p \in PluginNames : RemovePlugin(p)
    \/ \E p \in PluginNames, a \in ArgLists : GetInstance(p, a)
    \/ \E p \in PluginNames, m \in MockNames, f \in Callbacks : Mock(p, m, f)
    \/ \E p \in PluginNames, m \in MockNames : Unmock(p, m)
    \/ \E i \in 1..MaxObjects : Detach(i)
    \/ \E i \in 1..MaxObjects : Destructor(i)

Spec == Init /\ [][Next]_vars

\* The registry seen through its mediators.
MediatorNext ==
    \/ \E p \in MediatorPlugins : RegisterPlugin(p)
    \/ \E p \in MediatorPlugins : RemovePlugin(p)
    \/ \E h \in Mediators, prop \in PropNames : MediatorGet(h, prop)
    \/ \E h \in Mediators, prop \in PropNames : MediatorHas(h, prop)
    \/ \E prop \in PropNames : MediatorDelete(prop)

MediatorSpec == Init /\ [][MediatorNext]_vars

\* Names read through the mediators to obtain the function of a plugin.
ResolveProps == {"alert", "Store", "cookie"}

\* Plugins registered, replaced and removed while clients keep and call the
\* functions the mediators gave them.
ResolveNext ==
    \/ \E p \in PluginNames : RegisterPlugin(p)
    \/ \E p \in PluginNames : RemovePlugin(p)
    \/ \E h \in Mediators, prop \in ResolveProps : MediatorGet(h, prop)
    \/ \E n \in PluginNames, a \in ArgLists : Invoke(n, a)

ResolveSpec == Init /\ [][ResolveNext]_vars

\* The loader of a plugin composed with Configurable.
ConfigurableInit ==
    /\ plugins = {}
    /\ members = RegistryMembers
    /\ held = {}
    /\ widget = NewWidget(FALSE)
    /\ promises = << >>
    /\ triggers = << >>
    /\ globalEvents = << >>
    /\ \E s \in ConfigurablePlugins : loaders = [p \in {s} |-> NewLoader]
    /\ objs = << >>
    /\ traitProto = [m \in MockNames |-> Absent]
    /\ last = Outcome("new", "", "", "none")

ConfigurableNext ==
    \/ \E p \in ConfigurablePlugins : RegisterPlugin(p)
    \/ \E p \in ConfigurablePlugins : RemovePlugin(p)
    \/ \E p \in ConfigurablePlugins, a \in ArgLists : GetInstance(p, a)
    \/ \E p \in ConfigurablePlugins, m \in MockNames, f \in Callbacks : Mock(p, m, f)
    \/ \E p \in ConfigurablePlugins, m \in MockNames : Unmock(p, m)

ConfigurableSpec == ConfigurableInit /\ [][ConfigurableNext]_vars

\* An instance composed with FiresEvents, with global events enabled or not.
EventInit ==
    /\ plugins = {}
    /\ loaders = [p \in {"alert"} |-> NewLoader]
    /\ objs = << >>
    /\ traitProto = [m \in MockNames |-> Absent]
    /\ last = Outcome("new", "", "", "none")
    /\ members = RegistryMembers
    /\ held = {}
    /\ \E localOnly \in BOOLEAN : widget = NewWidget(localOnly)
    /\ promises = << >>
    /\ triggers = << >>
    /\ globalEvents = << >>

EventNext ==
    \/ \E e \in EventNames, cb \in EventCallbacks : On(e, cb)
    \/ \E e \in EventNames, cb \in EventCallbacks : Off(e, cb)
    \/ \E e \in EventNames, a \in ArgLists : TriggerPromiseEvent(e, a)
    \/ \E id \in 1..(MaxListeners * MaxPromiseTriggers), outcome \in {"resolved", "rejected"} :
          Settle(id, outcome)
    \/ \E t \in 1..MaxPromiseTriggers : React(t)

EventSpec == EventInit /\ [][EventNext]_vars

\* The synchronous events of an instance composed with FiresEvents.
ListenerNext ==
    \/ \E e \in EventNames, cb \in EventCallbacks : On(e, cb)
    \/ \E e \in EventNames, cb \in EventCallbacks : Off(e, cb)
    \/ \E e \in EventNames, cb \in EventCallbacks : Once(e, cb)
    \/ \E e \in EventNames, a \in ArgLists : TriggerEvent(e, a)

ListenerSpec == EventInit /\ [][ListenerNext]_vars

(***************************************************************************)
(* Vocabulary of the properties                                            *)
(***************************************************************************)
Range(seq) == {seq[k] : k \in 1..Len(seq)}

\* The names plugin p depends on, lower-cased, that the registry lacks.
UnmetNames(p) == {ToLowerCase(d) : d \in Range(PluginClass(p).deps)} \ plugins

\* Members the plugin class declares itself or inherits from its ancestry.
DeclaredByPlugin(p) ==
    PluginClass(p).fields \cup PluginBaseFields
        \cup PluginClass(p).methods \cup PluginBaseMethods

\* The registered traits of plugin p that supply member n, as a default
\* property or as a method, in the order of the plugin's trait list.
Suppliers(p, n) ==
    SelectSeq(PluginClass(p).traits,
              LAMBDA t : /\ t \in RegisteredTraits
                         /\ n \in TraitClass(t).fields \cup TraitClass(t).methods)

\* The last operation was a getInstance on p that returned an instance.
Returned(p) ==
    /\ last.op = "getInstance"
    /\ last.plugin = p
    /\ last.err = "none"

(***************************************************************************)
(* C1  getInstance with an unmet dependency                                *)
(***************************************************************************)
\* C1: whenever getInstance is called on plugin p while a lower-cased
\* dependency name of p is not registered, the call fails with the
\* missing-dependency error naming exactly the unmet names and changes
\* neither the loader (live set, initialised flag, invocation counters) nor
\* the heap; whenever it is called with every dependency registered, the
\* call succeeds and returns a live instance.
C1_MissingDependency ==
    [][\A p \in PluginNames, a \in ArgLists :
         GetInstance(p, a) =>
            IF UnmetNames(p) # {}
            THEN /\ last'.err = "MissingDependency"
                 /\ Range(last'.unmet) = UnmetNames(p)
                 /\ loaders' = loaders
                 /\ objs' = objs
            ELSE /\ last'.err = "none"
                 /\ last'.ret \in loaders'[p].instances]_vars

(***************************************************************************)
(* C2  a singleton is built once and always returned                       *)
(***************************************************************************)
\* C2: for a singleton plugin none of whose instances was removed, the
\* factory has been invoked at most once, and every getInstance made while
\* the dependencies are fulfilled returns the one live instance.
C2_SingletonOnce ==
    \A p \in DOMAIN loaders :
        (IsSingleton(p) /\ Removed(p) = {}) =>
            /\ loaders[p].calls.factory <= 1
            /\ loaders[p].calls.init <= 1
            /\ (last.op = "getInstance" /\ last.plugin = p /\ UnmetNames(p) = {})
                  => /\ last.err = "none"
                     /\ loaders[p].instances = {last.ret}
                     /\ loaders[p].calls.factory = 1
                     /\ loaders[p].calls.init = 1

(***************************************************************************)
(* C3  a singleton loader holds at most one live instance                  *)
(***************************************************************************)
\* C3: after every step the live set of a singleton's loader has at most
\* one member, and a step in which the loader invokes the factory starts
\* from an empty live set.
C3_AtMostOneInstance ==
    [][\A p \in DOMAIN loaders :
         IsSingleton(p) =>
            /\ Cardinality(loaders'[p].instances) <= 1
            /\ (loaders'[p].calls.factory > loaders[p].calls.factory
                  => loaders[p].instances = {})]_vars

\* A built singleton was requested again and the request was served by the
\* live instance, without a factory call.
C3_Witness ==
    /\ Returned("store")
    /\ last.steps = << >>
    /\ loaders["store"].instances = {last.ret}
    /\ loaders["store"].calls.factory = 1

(***************************************************************************)
(* C4  instances of a non-singleton plugin are independent                 *)
(***************************************************************************)
\* C4: for a non-singleton plugin, a successful getInstance returns an
\* identity that no earlier call returned and adds exactly it to the live
\* set; detach on instance i removes exactly i from the live set and
\* changes no instance.
C4_DistinctInstances ==
    [][\A p \in DOMAIN loaders :
         ~IsSingleton(p) =>
            /\ \A a \in ArgLists :
                  (GetInstance(p, a) /\ last'.err = "none") =>
                     /\ last'.ret \notin 1..Len(objs)
                     /\ last'.ret \in 1..Len(objs')
                     /\ loaders'[p].instances = loaders[p].instances \cup {last'.ret}
                     /\ \A i \in 1..Len(objs) : objs'[i] = objs[i]
            /\ \A i \in 1..Len(objs) :
                  Detach(i) =>
                     /\ loaders'[p].instances = loaders[p].instances \ {i}
                     /\ objs' = objs]_vars

\* Two instances were live and one of them was detached: the other stays.
C4_Witness ==
    /\ DOMAIN loaders = {"alert"}
    /\ last.op = "detach"
    /\ Len(objs) = 2
    /\ Cardinality(loaders["alert"].instances) = 1
    /\ last.ret \notin loaders["alert"].instances

(***************************************************************************)
(* C5  precedence between traits                                           *)
(***************************************************************************)
\* C5: on every composed instance, a member that the plugin does not
\* declare and that two or more registered traits of its trait list supply
\* (as a method or as a default property) is the one of the first such
\* trait of the list.
C5_FirstTraitWins ==
    \A i \in 1..Len(objs) :
        \A n \in MemberNames \ (DeclaredByPlugin(objs[i].plugin) \cup ReservedNames) :
            Cardinality(Range(Suppliers(objs[i].plugin, n))) >= 2
                => Get(objs[i], n) = <<Head(Suppliers(objs[i].plugin, n)), n>>

(***************************************************************************)
(* C6  the plugin's own members win over traits                            *)
(***************************************************************************)
\* C6: on every composed instance, each member the plugin declares (own
\* field of the instance, or member of a class of its ancestry) that some
\* registered trait of its trait list also supplies is still the plugin's.
C6_OwnMembersKept ==
    \A i \in 1..Len(objs) :
        \A n \in DeclaredByPlugin(objs[i].plugin) \ ReservedNames :
            Suppliers(objs[i].plugin, n) # << >>
                => Get(objs[i], n) = Get(NewInstance(objs[i].plugin, objs[i].args), n)

(***************************************************************************)
(* C7  reserved lifecycle names                                            *)
(***************************************************************************)
\* C7: no composed instance has an own property under a reserved lifecycle
\* name, except the detach hook installed by the loader: the members under
\* these names are those of the plugin class and the plugin base.
C7_ReservedNamesKept ==
    \A i \in 1..Len(objs) :
        \A n \in ReservedNames :
            /\ objs[i].own[n] = (IF n = "detach" THEN DetachHook ELSE Absent)
            /\ n # "detach" => Get(objs[i], n) = ProtoGet(objs[i].plugin, n)

\* An instance was composed from traits that supply reserved names both as
\* default properties (init, detach, getSnowboard) and as methods
\* (construct, destruct, destructor).
C7_Witness ==
    /\ Returned("alert")
    /\ last.applied = <<"a", "b">>
    /\ {"init", "detach"} \subseteq TraitClass("a").fields
    /\ "getSnowboard" \in TraitClass("b").fields
    /\ objs[last.ret].own["foo"] # Absent

(***************************************************************************)
(* C8  a trait that is not registered                                      *)
(***************************************************************************)
\* C8: a getInstance that builds an instance of a plugin whose trait list
\* names an unregistered trait succeeds: it warns about that name, applies
\* the registered traits of the list in order, calls init and records the
\* instance.
C8_MissingTraitTolerated ==
    \A p \in DOMAIN loaders :
        (/\ last.op = "getInstance"
         /\ last.plugin = p
         /\ UnmetNames(p) = {}
         /\ Range(PluginClass(p).traits) \ RegisteredTraits # {}
         /\ \E k \in 1..Len(last.steps) : last.steps[k] = "factory")
            => /\ last.err = "none"
               /\ Range(last.warnings) = Range(PluginClass(p).traits) \ RegisteredTraits
               /\ last.applied =
                     SelectSeq(AddAll(<< >>, PluginClass(p).traits),
                               LAMBDA t : t \in RegisteredTraits)
               /\ \E k \in 1..Len(last.steps) : last.steps[k] = "init"
               /\ last.ret \in loaders[p].instances

(***************************************************************************)
(* C9  mock round trip                                                     *)
(***************************************************************************)
\* C9: the instance a getInstance returns has, for every method name with an
\* active mock, a function that invokes the mock callback, and for every
\* other method name the implementation of its class.
C9_MockObserved ==
    \A p \in DOMAIN loaders :
        Returned(p) =>
            \A m \in MockNames :
                IF loaders[p].mocks[m] # "none"
                THEN Get(objs[last.ret], m) \in
                        {MockFn(loaders[p].mocks[m]), MockFnOfLoader(loaders[p].mocks[m])}
                ELSE Get(objs[last.ret], m) = ProtoGet(p, m)

(***************************************************************************)
(* C10  mocking a method the plugin does not have                          *)
(***************************************************************************)
\* C10: a mock() naming a method that neither the plugin class nor the
\* plugin base declares fails with the unknown-method error and changes
\* neither the loader (mock table, original-function table, live set,
\* initialised flag, invocation counters) nor the heap.
C10_UnknownMethod ==
    [][\A p \in PluginNames, m \in MockNames, f \in Callbacks :
         (Mock(p, m, f) /\ m \notin PluginClass(p).methods \cup PluginBaseMethods)
            => /\ last'.err = "UnknownMethod"
               /\ loaders' = loaders
               /\ objs' = objs
               /\ traitProto' = traitProto]_vars

\* mock() of an unknown method was refused on a singleton's loader that has
\* no instance, and the loader is still as its constructor left it.
C10_Witness ==
    /\ last.op = "mock"
    /\ last.plugin = "store"
    /\ last.arg = "nope"
    /\ last.err = "UnknownMethod"
    /\ UnmetNames("store") = {}
    /\ loaders = [p \in {"store"} |-> NewLoader]

(***************************************************************************)
(* C11  mock() on a singleton without an instance                          *)
(***************************************************************************)
\* C11: mock(m, f) of an existing method on a singleton's loader whose live
\* set is empty returns with exactly one instance in the live set, after the
\* construct, trait and init steps, with the initialised flag set; and a
\* getInstance on a singleton's loader that holds an instance (dependencies
\* met) returns that instance and does not invoke the factory.
C11_MockInitialises ==
    [][\A p \in DOMAIN loaders :
         IsSingleton(p) =>
            /\ \A m \in MockNames, f \in Callbacks :
                  (Mock(p, m, f) /\ NoInstances(loaders[p]) /\ ~MethodMissing(p, m)) =>
                     /\ last'.err = "none"
                     /\ loaders'[p].instances = {last'.ret}
                     /\ {"construct", "traits", "init"} \subseteq Range(last'.steps)
                     /\ loaders'[p].initialised
            /\ \A a \in ArgLists :
                  (GetInstance(p, a) /\ ~NoInstances(loaders[p]) /\ UnmetNames(p) = {}) =>
                     /\ last'.err = "none"
                     /\ loaders[p].instances = {last'.ret}
                     /\ loaders'[p].calls = loaders[p].calls]_vars

(***************************************************************************)
(* C12  a singleton's mock is applied immediately                          *)
(***************************************************************************)
\* C12: when mock(m, f) has returned on a singleton's loader, method m of
\* the singleton instance is a function that invokes f.
C12_MockImmediate ==
    \A p \in DOMAIN loaders :
        (/\ IsSingleton(p)
         /\ last.op = "mock"
         /\ last.plugin = p
         /\ last.err = "none")
            => /\ loaders[p].instances # {}
               /\ \A i \in loaders[p].instances :
                     Get(objs[i], last.arg) \in
                        {MockFn(loaders[p].mocks[last.arg]),
                         MockFnOfLoader(loaders[p].mocks[last.arg])}

(***************************************************************************)
(* C13  the destructed flag                                                *)
(***************************************************************************)
\* C13: a new instance has destructed = false; destructor() completes
\* without error, also when called again, and leaves destructed = true; no
\* step turns the flag of an instance from true to false.
C13_DestructedMonotonic ==
    [][/\ \A i \in 1..Len(objs') :
             i \notin 1..Len(objs) => Get(objs'[i], "destructed") = False
       /\ \A i \in 1..Len(objs) :
             /\ Destructor(i) =>
                   (last'.err = "none" /\ Get(objs'[i], "destructed") = True)
             /\ Get(objs[i], "destructed") = True
                   => Get(objs'[i], "destructed") = True]_vars

\* The destructor of an instance was called a second time.
C13_Witness ==
    /\ last.op = "destructor"
    /\ last.arg = "again"
    /\ last.err = "none"
    /\ Get(objs[last.ret], "destructed") = True

(***************************************************************************)
(* C14  the detach hook                                                    *)
(***************************************************************************)
\* C14: detach() on an instance completes without error, leaves the live
\* set of its loader without that instance and otherwise as it was (so a
\* further call changes nothing), changes no instance (the destructed flag
\* included) and does not call the destruct hook.
C14_DetachIdempotent ==
    [][\A i \in 1..Len(objs) :
         Detach(i) =>
            /\ last'.err = "none"
            /\ loaders'[objs[i].plugin].instances
                  = loaders[objs[i].plugin].instances \ {i}
            /\ \A q \in DOMAIN loaders :
                  q # objs[i].plugin => loaders'[q] = loaders[q]
            /\ objs' = objs
            /\ "destruct" \notin Range(last'.steps)]_vars

\* detach() was called again on an instance that is not destructed while
\* another instance of its plugin is live.
C14_Witness ==
    /\ last.op = "detach"
    /\ last.arg = "again"
    /\ Get(objs[last.ret], "destructed") = False
    /\ loaders[last.plugin].instances # {}

C16_DeleteProperty ==
    [][\A prop \in PropNames :
         MediatorDelete(prop) =>
            /\ members' = members
            /\ IF ToLowerCase(prop) \in plugins
               THEN /\ plugins' = plugins \ {ToLowerCase(prop)}
                    /\ last'.value = True
               ELSE /\ plugins' = plugins
                    /\ loaders' = loaders
                    /\ last'.value = False]_vars

\* The deletion of a literal member of the registry that is no plugin was
\* rejected while plugins were registered.
C16_Witness ==
    /\ last.op = "delete"
    /\ last.arg = "hasPlugin"
    /\ last.value = False
    /\ "hasPlugin" \in members
    /\ plugins # {}

(***************************************************************************)
(* C17  resolution order of a member read                                  *)
(***************************************************************************)
\* The result of reading prop through mediator h in the current state.
ReadOf(h, prop) ==
    IF h = "ProxyHandler" THEN ProxyHandlerGet(plugins, members, prop)
                          ELSE InnerProxyHandlerGet(plugins, members, prop)

\* C17: a read through a mediator of a name that is neither an abstract nor
\* (through the internal mediator) forbidden resolves, without error, to
\* the registry's literal member of that name if there is one; otherwise to
\* the callable of the plugin registered under the lower-cased name if
\* there is one; otherwise to nothing.
C17_ReadOrder ==
    [][\A h \in Mediators, prop \in PropNames \ AbstractNames :
         (MediatorGet(h, prop) /\ ~(h = "InnerProxyHandler" /\ prop \in ForbiddenNames)) =>
            /\ last'.err = "none"
            /\ last'.value =
                  IF prop \in members THEN Member(prop)
                  ELSE IF ToLowerCase(prop) \in plugins
                       THEN PluginCallable(ToLowerCase(prop))
                  ELSE Undefined]_vars

(***************************************************************************)
(* C18  the existence check mirrors the read                               *)
(***************************************************************************)
\* C18 as stated: an existence check through a mediator reports true
\* exactly when the read of the same name through the same mediator in the
\* same state resolves to a value, and false exactly when that read
\* completes and yields nothing.
C18_HasMirrorsGet ==
    [][\A h \in Mediators, prop \in PropNames :
         MediatorHas(h, prop) =>
            /\ last'.value = True
                  <=> (ReadOf(h, prop).err = "none" /\ ReadOf(h, prop).value # Undefined)
            /\ last'.value = False
                  <=> (ReadOf(h, prop).err = "none" /\ ReadOf(h, prop).value = Undefined)]_vars

\* C18 amended: an existence check through a mediator reports true exactly
\* when the read of the same name through the same mediator in the same
\* state resolves to a value, and false exactly when that read yields
\* nothing or raises the forbidden-operation error of the internal mediator.
C18_HasMirrorsGetOrForbidden ==
    [][\A h \in Mediators, prop \in PropNames :
         MediatorHas(h, prop) =>
            /\ last'.value = True
                  <=> (ReadOf(h, prop).err = "none" /\ ReadOf(h, prop).value # Undefined)
            /\ last'.value = False
                  <=> \/ ReadOf(h, prop).err = "none" /\ ReadOf(h, prop).value = Undefined
                      \/ ReadOf(h, prop).err = "Forbidden" /\ h = "InnerProxyHandler"]_vars

\* The internal mediator reported a plugin registered under a name in
\* another case as existing, where the read resolves to its callable.
C18_Witness ==
    /\ last.op = "has"
    /\ last.plugin = "InnerProxyHandler"
    /\ last.arg = "Alert"
    /\ last.value = True
    /\ ReadOf("InnerProxyHandler", "Alert").value = PluginCallable("alert")

(***************************************************************************)
(* C19  the global promise event waits for the local listeners             *)
(***************************************************************************)
\* The deferred results the listeners returned for trigger t.
PromisesOf(t) == {id \in 1..Len(promises) : promises[id].trigger = t}

\* C19: whenever a global promise event is sent for a trigger, every
\* deferred result that a local listener returned for that trigger has
\* resolved.
C19_GlobalAfterListeners ==
    [][\A t \in 1..Len(triggers) :
         (React(t) /\ globalEvents' # globalEvents) =>
            \A id \in PromisesOf(t) : promises[id].state = "resolved"]_vars

(***************************************************************************)
(* C20  a rejection suppresses the global promise event                    *)
(***************************************************************************)
\* C20: no trigger for which a listener's deferred result was rejected has
\* its global promise event sent.
C20_RejectionSuppresses ==
    \A k \in 1..Len(globalEvents) :
        \A id \in PromisesOf(globalEvents[k].trigger) :
            promises[id].state # "rejected"

(***************************************************************************)
(* C21  a listener that returns false stops the dispatch                   *)
(***************************************************************************)
\* The listener entries whose stored function returns false: callbacks
\* registered with on() that return false.
IsVeto(entry) == entry.at = 0 /\ entry.callback = "veto"

\* The number of listeners a dispatch over fns invokes: up to and including
\* the first that returns false.
InvokedCount(fns) ==
    IF \E k \in 1..Len(fns) : IsVeto(fns[k])
    THEN CHOOSE k \in 1..Len(fns) :
            IsVeto(fns[k]) /\ \A j \in 1..(k - 1) : ~IsVeto(fns[j])
    ELSE Len(fns)

C22_GlobalEventSent ==
    [][\A e \in EventNames, a \in ArgLists :
         TriggerEvent(e, a) =>
            IF \/ widget.localEventsOnly
               \/ \E k \in 1..Len(widget.eventListeners) :
                     /\ widget.eventListeners[k].event = e
                     /\ IsVeto(widget.eventListeners[k])
            THEN globalEvents' = globalEvents
            ELSE /\ Len(globalEvents') = Len(globalEvents) + 1
                 /\ SubSeq(globalEvents', 1, Len(globalEvents)) = globalEvents
                 /\ globalEvents'[Len(globalEvents')].name = <<widget.eventPrefix, e>>
                 /\ globalEvents'[Len(globalEvents')].kind = "globalEvent"
                 /\ globalEvents'[Len(globalEvents')].params = a]_vars

(***************************************************************************)
(* C23  a once-listener fires once                                         *)
(***************************************************************************)
\* C23: no listener registered with once() has been invoked by more than
\* one triggerEvent.
C23_OnceFiresOnce ==
    \A k \in 1..Len(widget.eventListeners) :
        widget.eventListeners[k].at # 0 => widget.eventListeners[k].fired <= 1

(***************************************************************************)
(* C24  dependenciesFulfilled looks at registered names only               *)
(***************************************************************************)
\* C24: every getInstance finds the dependencies of its plugin unfulfilled
\* exactly when some lower-cased dependency name is not registered at that
\* moment, whatever was registered, removed or instantiated before.
C24_DependenciesByName ==
    [][\A p \in PluginNames, a \in ArgLists :
         GetInstance(p, a) =>
            (last'.err = "MissingDependency" <=> UnmetNames(p) # {})]_vars

\* A plugin passed the dependency check although its only dependency was
\* never instantiated, is a singleton, and has an unregistered dependency of
\* its own.
C24_Witness ==
    /\ last.op = "getInstance"
    /\ last.plugin = "alert"
    /\ last.err # "MissingDependency"
    /\ "cookie" \in plugins
    /\ "store" \notin plugins
    /\ \A i \in 1..Len(objs) : objs[i].plugin # "cookie"

(***************************************************************************)
(* C25  resolution goes to the loader registered now                       *)
(***************************************************************************)
\* C25: a name that is registered again gets a loader that has built
\* nothing; a call of a function obtained from a mediator, whenever it was
\* obtained, returns an instance of the live set of the loader registered
\* under the name at the time of the call, or one built by that call; while
\* the name is not registered such a call returns no instance and builds
\* none, and a read of the name yields no function.
C25_ResolvesCurrentLoader ==
    [][/\ \A p \in PluginNames \cap DOMAIN loaders :
            RegisterPlugin(p) =>
                loaders'[p].instances = {} /\ ~loaders'[p].initialised
       /\ \A n \in PluginNames, a \in ArgLists :
            Invoke(n, a) =>
                IF n \in plugins
                THEN last'.err = "none" =>
                        /\ last'.ret \in loaders[n].instances \cup {Len(objs) + 1}
                        /\ objs'[last'.ret].plugin = n
                ELSE /\ last'.err # "none"
                     /\ last'.ret = 0
                     /\ objs' = objs
       /\ \A h \in Mediators, prop \in ResolveProps :
            (MediatorGet(h, prop) /\ ToLowerCase(prop) \notin plugins) =>
                last'.value = Undefined /\ held' = held]_vars

\* A function obtained for the singleton 'store' returned a second instance
\* while the first one, built before 'store' was registered again, is
\* neither destructed nor in the live set.
C25_Witness ==
    /\ last.op = "getInstance"
    /\ last.plugin = "store"
    /\ last.err = "none"
    /\ "store" \in held
    /\ last.ret = 2
    /\ objs[1].plugin = "store"
    /\ Get(objs[1], "destructed") = False
    /\ loaders["store"].instances = {2}

(***************************************************************************)
(* C26  a trait whose construct hook fails                                 *)
(***************************************************************************)
\* C26: getInstance of a plugin composed with Configurable that has no HTML
\* element fails with the error of the trait's construct hook after the
\* factory and construct ran again, without calling init, without recording
\* an instance, and leaving the singleton's initialised flag false.
C26_ConstructHookFails ==
    [][\A p \in ConfigurablePlugins, a \in ArgLists :
         GetInstance(p, a) =>
            /\ last'.err = "NotAnElement"
            /\ last'.ret = 0
            /\ {"factory", "construct"} \subseteq Range(last'.steps)
            /\ "init" \notin Range(last'.steps)
            /\ "add" \notin Range(last'.steps)
            /\ loaders'[p].instances = loaders[p].instances
            /\ loaders'[p].calls.init = loaders[p].calls.init
            /\ ~loaders'[p].initialised
            /\ objs' = objs]_vars

\* The second getInstance of a singleton composed with Configurable ran the
\* factory again and failed in the construct hook of the trait, after the
\* trait listed before it was composed.
C26_Witness ==
    /\ last.op = "getInstance"
    /\ last.plugin = "panel"
    /\ last.err = "NotAnElement"
    /\ last.applied = <<"b">>
    /\ loaders["panel"].calls.factory = 2
    /\ loaders["panel"].calls.init = 0
    /\ loaders["panel"].instances = {}
    /\ ~loaders["panel"].initialised

(***************************************************************************)
(* C27  the order of the construction steps                                *)
(***************************************************************************)
\* Whether sequence s is an initial part of sequence t.
IsPrefix(s, t) == Len(s) <= Len(t) /\ s = SubSeq(t, 1, Len(s))

\* The construction steps of a non-singleton in the order of the code; the
\* mocks step exists only while a mock is active.
StepsMocksSecond(mocked) ==
    <<"factory">> \o (IF mocked THEN <<"mocks">> ELSE << >>)
        \o <<"detach", "construct", "traits", "init", "add">>

\* The same steps with the mocks applied after the recording.
StepsMocksLast(mocked) ==
    <<"factory", "detach", "construct", "traits", "init", "add">>
        \o (IF mocked THEN <<"mocks">> ELSE << >>)

\* C27 as stated: a getInstance that builds a non-singleton performs
\* factory, detach hook, construct, trait composition, init, recording and
\* then the application of the active mocks, in this order.
C27_MocksAfterRecord ==
    [][\A p \in PluginNames, a \in ArgLists :
         (GetInstance(p, a) /\ ~IsSingleton(p) /\ last'.err = "none") =>
            last'.steps = StepsMocksLast(HasMocks(loaders[p]))]_vars

\* C27 amended: a getInstance of a non-singleton whose dependencies are
\* registered performs an initial part of: factory with the arguments,
\* application of the active mocks, detach hook, construct, trait
\* composition, init, recording; it performs all of them exactly when it
\* succeeds, and the instance it returns was built with the arguments.
C27_MocksBeforeConstruct ==
    [][\A p \in PluginNames, a \in ArgLists :
         (GetInstance(p, a) /\ ~IsSingleton(p) /\ UnmetNames(p) = {}) =>
            /\ IsPrefix(last'.steps, StepsMocksSecond(HasMocks(loaders[p])))
            /\ last'.steps # << >>
            /\ last'.err = "none"
                  <=> last'.steps = StepsMocksSecond(HasMocks(loaders[p]))
            /\ last'.err = "none" =>
                  /\ objs'[last'.ret].args = a
                  /\ last'.ret \in loaders'[p].instances \ loaders[p].instances]_vars

\* A non-singleton was built while a mock was active: the mocks were
\* applied between the factory and the detach hook.
C27_Witness ==
    /\ last.op = "getInstance"
    /\ ~IsSingleton(last.plugin)
    /\ last.err = "none"
    /\ HasMocks(loaders[last.plugin])
    /\ last.steps = <<"factory", "mocks", "detach", "construct", "traits",
                      "init", "add">>

(***************************************************************************)
(* C28  traits of every level of the ancestry, once each                   *)
(***************************************************************************)
\* The trait names of every level of the ancestry of plugin p, from the
\* concrete class upwards, each name once at its first occurrence.
TraitsOfAncestry(p) ==
    AddAll(<< >>, PluginClass(p).traits \o PluginClass(p).inherited)

\* C28: a getInstance that builds an instance composes it with the
\* registered traits declared at any level of its ancestry, each exactly
\* once, in the order of first occurrence from the concrete class upwards.
C28_TraitsOfEveryLevel ==
    \A p \in DOMAIN loaders :
        (Returned(p) /\ "traits" \in Range(last.steps)) =>
            last.applied = SelectSeq(TraitsOfAncestry(p), HasTrait)

(***************************************************************************)
(* C29  the ancestry walk terminates without failure                       *)
(***************************************************************************)
\* C29: no getInstance that reaches trait composition fails in it with a
\* type error: the walk ends at the root object type and the traits are
\* applied.
C29_WalkCompletes ==
    \A p \in DOMAIN loaders :
        (/\ last.op = "getInstance"
         /\ last.plugin = p
         /\ "traits" \in Range(last.steps))
            => /\ last.err # "TypeError"
               /\ "init" \in Range(last.steps)

(***************************************************************************)
(* C30  mock sets are applied whole                                        *)
(***************************************************************************)
\* C30: in every sequence of mock, unmock and getInstance, the instance a
\* successful getInstance returns resolves every method name of the mock
\* table to its mock and every other method name to the implementation of
\* the plugin class.
C30_MocksWhole ==
    [][\A p \in PluginNames, a \in ArgLists :
         (GetInstance(p, a) /\ last'.err = "none") =>
            LET inst == objs'[last'.ret]
                mocked == {m \in MockNames : loaders'[p].mocks[m] # "none"}
            IN  /\ \A m \in mocked :
                      Get(inst, m) \in {MockFn(loaders'[p].mocks[m]),
                                        MockFnOfLoader(loaders'[p].mocks[m])}
                /\ \A m \in MockNames \ mocked : Get(inst, m) = ProtoGet(p, m)]_vars

(***************************************************************************)
(* C31  mocks of a non-singleton plugin                                    *)
(***************************************************************************)
\* C31: for a non-singleton plugin, mock and unmock change no existing
\* instance, and the instance a getInstance creates resolves every method
\* name mocked at that time to its mock and every other method name to the
\* implementation of the plugin class.
C31_MockPerInstance ==
    [][\A p \in PluginNames \cap DOMAIN loaders :
         ~IsSingleton(p) =>
            /\ \A m \in MockNames, f \in Callbacks : Mock(p, m, f) => objs' = objs
            /\ \A m \in MockNames : Unmock(p, m) => objs' = objs
            /\ \A a \in ArgLists :
                  (GetInstance(p, a) /\ last'.err = "none") =>
                     \A m \in MockNames :
                        Get(objs'[last'.ret], m) =
                            IF loaders[p].mocks[m] # "none"
                            THEN MockFn(loaders[p].mocks[m])
                            ELSE ProtoGet(p, m)]_vars

(***************************************************************************)
(* C32  a removed singleton is built anew                                  *)
(***************************************************************************)
\* C32: a getInstance on a singleton's loader invokes the factory only when
\* the live set is empty; when the instance was removed from the live set
\* and the dependencies are registered, it runs the factory, construct,
\* trait composition and init again and returns a new instance, and it
\* never returns an instance that is not in the live set before the call.
C32_RemovedSingletonRebuilt ==
    [][\A p \in PluginNames \cap DOMAIN loaders, a \in ArgLists :
         (GetInstance(p, a) /\ IsSingleton(p)) =>
            /\ "factory" \in Range(last'.steps) => loaders[p].instances = {}
            /\ last'.err = "none" => last'.ret \notin Removed(p)
            /\ (Removed(p) # {} /\ loaders[p].instances = {} /\ UnmetNames(p) = {})
                  => /\ last'.err = "none"
                     /\ last'.ret = Len(objs) + 1
                     /\ last'.steps \in
                            {<<"factory", "detach", "construct", "traits", "init", "add">>,
                             <<"factory", "detach", "construct", "traits", "init", "add",
                               "mocks">>}
                     /\ loaders'[p].instances = {last'.ret}]_vars

\* The singleton 'store' was built, removed by its detach hook without
\* being destructed, and the next getInstance returned a second instance.
C32_Witness ==
    /\ Returned("store")
    /\ last.ret = 2
    /\ objs[1].plugin = "store"
    /\ "store" \in plugins
    /\ Get(objs[1], "destructed") = False
    /\ loaders["store"].instances = {2}
    /\ loaders["store"].calls.init = 2

(***************************************************************************)
(* C33  no construction with an unregistered dependency                    *)
(***************************************************************************)
\* C33: every operation of a loader that invokes the factory (getInstance,
\* or the initialisation mock forces on a singleton) starts while every
\* lower-cased dependency name of the plugin is registered.
C33_BuildsOnlyFulfilled ==
    [][\A p \in PluginNames \cap DOMAIN loaders :
         loaders'[p].calls.factory > loaders[p].calls.factory
            => UnmetNames(p) = {}]_vars

(***************************************************************************)
(* C34  unmock never fails                                                 *)
(***************************************************************************)
\* C34: every unmock(m) completes without error, leaves m neither in the
\* mock table nor in the original-function table, and leaves the entries of
\* the other method names as they were.
C34_UnmockCompletes ==
    [][\A p \in PluginNames \cap DOMAIN loaders, m \in MockNames :
         Unmock(p, m) =>
            /\ last'.err = "none"
            /\ loaders'[p].mocks[m] = "none"
            /\ loaders'[p].orig[m] = Absent
            /\ \A n \in MockNames \ {m} :
                  /\ loaders'[p].mocks[n] = loaders[p].mocks[n]
                  /\ loaders'[p].orig[n] = loaders[p].orig[n]]_vars

(***************************************************************************)
(* C35  the dependency check precedes the reuse of a singleton             *)
(***************************************************************************)
\* C35: a getInstance on a singleton's loader that holds an instance fails
\* with the missing-dependency error while a dependency is unregistered,
\* leaving the loader and every instance unchanged; with every dependency
\* registered (again) it returns that same instance and builds nothing.
C35_CheckBeforeReuse ==
    [][\A p \in PluginNames \cap DOMAIN loaders, a \in ArgLists :
         (GetInstance(p, a) /\ IsSingleton(p) /\ loaders[p].instances # {}) =>
            IF UnmetNames(p) # {}
            THEN /\ last'.err = "MissingDependency"
                 /\ last'.ret = 0
                 /\ loaders'[p] = loaders[p]
                 /\ objs' = objs
            ELSE /\ last'.err = "none"
                 /\ {last'.ret} = loaders[p].instances
                 /\ loaders'[p].instances = loaders[p].instances
                 /\ Len(objs') = Len(objs)]_vars

\* getInstance of the built singleton 'store' failed because a dependency
\* had been removed; its instance is still the one member of the live set.
C35_Witness ==
    /\ last.op = "getInstance"
    /\ last.plugin = "store"
    /\ last.err = "MissingDependency"
    /\ loaders["store"].instances = {1}
    /\ loaders["store"].initialised
    /\ Get(objs[1], "destructed") = False

(***************************************************************************)
(* C36  a once-listener removes only itself                                *)
(***************************************************************************)
\* The list without the wrappers for event e among the first n listeners
\* for e: the registrations a dispatch of e that invokes n listeners fires.
WithoutFired(list, e, n) ==
    LET Fired(item) ==
            /\ item.entry.event = e
            /\ item.entry.at # 0
            /\ Len(ListenersFor(SubSeq(list, 1, item.pos), e)) <= n
        kept == SelectSeq([k \in 1..Len(list) |-> [entry |-> list[k], pos |-> k]],
                          LAMBDA item : ~Fired(item))
    IN  [k \in 1..Len(kept) |-> kept[k].entry]

\* C36: triggerEvent(e) removes from the listener list exactly the
\* registrations made with once() that it invoked, and leaves every other
\* registration, and the order of the list, unchanged.
C36_OnceRemovesItself ==
    [][\A e \in EventNames, a \in ArgLists :
         TriggerEvent(e, a) =>
            widget'.eventListeners =
                WithoutFired(widget.eventListeners, e,
                             InvokedCount(ListenersFor(widget.eventListeners, e)))]_vars

(***************************************************************************)
(* C37  no destructed instance in a live set                               *)
(***************************************************************************)
\* C37: in every state, every member of a loader's live set has
\* destructed = false, and the instance the last getInstance returned is
\* not destructed.
C37_LiveNotDestructed ==
    /\ \A p \in DOMAIN loaders :
          loaders[p].instances \cap DestructedObjects = {}
    /\ (last.op = "getInstance" /\ last.err = "none")
          => last.ret \notin DestructedObjects

\* The singleton 'store' was destructed and requested again: the instance
\* returned is a second one, live and not destructed.
C37_Witness ==
    /\ Returned("store")
    /\ DestructedObjects = {1}
    /\ objs[1].plugin = "store"
    /\ loaders["store"].instances = {2}
    /\ last.ret = 2

====
